---- MODULE Spec2Model ----
(***************************************************************************)
(* Connect4 solver (src/brain/Solver.cpp) and opening book                 *)
(* (src/brain/OpeningBook.hpp): negamax with transposition table, the      *)
(* binary-search wrapper solve, getBestMove, the column exploration order, *)
(* the one-byte bound encoding and the opening book's load/clear/save/get. *)
(* Position, TranspositionTable, MoveSorter and MoveChooser are not part   *)
(* of the two files; they are modelled from the specification, on a board  *)
(* small enough to be searched exhaustively.                               *)
(***************************************************************************)
EXTENDS Integers, Sequences, FiniteSets, TLC

\* ------------------------------------------------------------------------
\* Position (Position.hpp is not among the sources: modelled from the spec)
\* ------------------------------------------------------------------------

\* Board geometry of the model: a toy board (the program's is 7 x 6, four in a row).
WIDTH == 3
HEIGHT == 3
ALIGN == 3

\* C++ integer division truncates toward zero.
CDiv(a, b) == IF a >= 0 THEN a \div b ELSE -((-a) \div b)

\* C++ remainder has the sign of the dividend.
CMod(a, b) == a - b * CDiv(a, b)

\* Score range for a w x h board with a-in-a-row: the earliest possible win
\* is the first player's a-th stone.
MinScoreOf(w, h, a) == -((w * h) \div 2) + (a - 1)
MaxScoreOf(w, h, a) == ((w * h + 1) \div 2) - (a - 1)
MIN_SCORE == MinScoreOf(WIDTH, HEIGHT, ALIGN)
MAX_SCORE == MaxScoreOf(WIDTH, HEIGHT, ALIGN)

Cols == 0 .. (WIDTH - 1)
Rows == 0 .. (HEIGHT - 1)

\* A position is a tuple of columns, each the sequence of stones (1 or 2)
\* stacked bottom-up.  Player 1 moves first.
EmptyPosition == [c \in 1 .. WIDTH |-> << >>]

RECURSIVE SumLen(_, _)
SumLen(P, c) == IF c = 0 THEN 0 ELSE Len(P[c]) + SumLen(P, c - 1)

nbMoves(P) == SumLen(P, WIDTH)

currentPlayer(P) == 1 + (nbMoves(P) % 2)

cellAt(P, c, r) ==
  IF c \in Cols /\ r \in Rows /\ r < Len(P[c + 1]) THEN P[c + 1][r + 1] ELSE 0

canPlay(P, c) == Len(P[c + 1]) < HEIGHT

possible(P) == {c \in Cols : canPlay(P, c)}

play(P, c) == [P EXCEPT ![c + 1] = Append(@, currentPlayer(P))]

key(P) == P

\* The alignments of the board: ALIGN cells in a row, column or diagonal.
Directions == {<<1, 0>>, <<0, 1>>, <<1, 1>>, <<1, -1>>}
Lines ==
  {l \in {[i \in 0 .. (ALIGN - 1) |-> <<c + i * d[1], r + i * d[2]>>] :
            c \in Cols, r \in Rows, d \in Directions} :
     \A i \in 0 .. (ALIGN - 1) : l[i][1] \in Cols /\ l[i][2] \in Rows}

LinesThrough ==
  [c \in Cols, r \in Rows |->
     {l \in Lines : \E i \in 0 .. (ALIGN - 1) : l[i] = <<c, r>>}]

\* Would a stone of player p on the empty cell (c, r) complete an alignment?
completes(P, p, c, r) ==
  \E l \in LinesThrough[c, r] :
    \A i \in 0 .. (ALIGN - 1) :
      l[i] = <<c, r>> \/ cellAt(P, l[i][1], l[i][2]) = p

isWinningMove(P, c) ==
  canPlay(P, c) /\ completes(P, currentPlayer(P), c, Len(P[c + 1]))

canWinNext(P) == \E c \in Cols : isWinningMove(P, c)

\* Has player p an alignment on the board?
aligned(P, p) ==
  \E l \in Lines : \A i \in 0 .. (ALIGN - 1) : cellAt(P, l[i][1], l[i][2]) = p

nobodyWon(P) == ~aligned(P, 1) /\ ~aligned(P, 2)

\* The moves after which the opponent cannot win at once.
possibleNonLosingMoves(P) ==
  {c \in possible(P) : ~canWinNext(play(P, c))}

\* Ordering heuristic of a move: the number of empty cells that would
\* complete an alignment of the mover once the move is played.
moveScore(P, c) ==
  LET Q == play(P, c)
      p == currentPlayer(P)
  IN Cardinality({x \in Cols \X Rows :
                    cellAt(Q, x[1], x[2]) = 0 /\ completes(Q, p, x[1], x[2])})

key3(P) == P

\* ------------------------------------------------------------------------
\* State
\* ------------------------------------------------------------------------
VARIABLES
  board,       \* the position of the game being played
  transTable,  \* Solver::transTable: position key -> stored byte
  bookT,       \* OpeningBook::T: "null", "live" or "dangling" (deleted, not reset)
  bookDepth,   \* OpeningBook::depth
  bookTab,     \* the contents of the table T points to: compact key -> byte
  alive,       \* FALSE once the process has aborted
  last,        \* the last operation, its arguments and what it returned
  ncalls,      \* number of solver operations performed so far
  order,       \* Solver::Solver filling columnOrder: [w, i, arr]
  enc,         \* a bound on its way through the table: [lo, hi, s, kind, stage, ...]
  search       \* solve's loop on its own: [min, max, width0, probes]

solverVars == <<board, transTable, ncalls>>
bookVars == <<bookT, bookDepth, bookTab, alive>>
auxVars == <<order, enc, search>>
vars == <<board, transTable, bookT, bookDepth, bookTab, alive, last, ncalls,
          order, enc, search>>

Byte == 0 .. 255

\* ------------------------------------------------------------------------
\* Transposition table (TranspositionTable.hpp is not among the sources:
\* get/put contract of the spec, uint8_t values)
\* ------------------------------------------------------------------------
EmptyTable == << >>

TableGet(t, k) == IF k \in DOMAIN t THEN t[k] ELSE 0

\* put(key, value): the value is stored in a uint8_t.
TablePut(t, k, v) == (k :> (v % 256)) @@ t

\* ------------------------------------------------------------------------
\* One-byte bound encoding used by negamax (Solver.cpp)
\* ------------------------------------------------------------------------

\* Mutant of encodeUpper: the upper bound stored one too low.
encodeUpperTooLow(s, lo, hi) == s - lo

\* Solver.cpp:109  transTable.put(key, alpha - MIN_SCORE + 1)
encodeUpper(s, lo, hi) == s - lo + 1

\* Mutant of encodeLower: the offset one short, so that the lowest lower bound
\* takes the byte of the highest upper bound.
encodeLowerOverlap(s, lo, hi) == s + hi - 2 * lo + 1

\* Solver.cpp:102  transTable.put(key, score + MAX_SCORE - 2*MIN_SCORE + 2)
encodeLower(s, lo, hi) == s + hi - 2 * lo + 2

\* Solver.cpp:66  val > MAX_SCORE - MIN_SCORE + 1: a lower bound
isLowerBound(val, lo, hi) == val > hi - lo + 1

\* Solver.cpp:67
decodeLower(val, lo, hi) == val + 2 * lo - hi - 2

\* Solver.cpp:73
decodeUpper(val, lo, hi) == val + lo - 1

\* ------------------------------------------------------------------------
\* Opening book lookup (OpeningBook.hpp:193-197)
\* ------------------------------------------------------------------------

\* get(P); junk is what reading through a deleted table yields.
OpeningBookGet(P, junk) ==
  IF nbMoves(P) > bookDepth THEN 0
  ELSE IF bookT = "null" THEN 0
  ELSE IF bookT = "live" THEN TableGet(bookTab, key3(P))
  ELSE junk

\* ------------------------------------------------------------------------
\* Column exploration order (Solver.cpp:175-178)
\* ------------------------------------------------------------------------
columnOrderOf(w) ==
  [i \in 0 .. (w - 1) |->
     CDiv(w, 2) + CDiv((1 - 2 * CMod(i, 2)) * (i + 1), 2)]

columnOrder == columnOrderOf(WIDTH)

\* ------------------------------------------------------------------------
\* MoveSorter (MoveSorter.hpp is not among the sources): entries kept in
\* ascending score order, a new entry placed after the entries of equal
\* score; getNext takes the last one.
\* ------------------------------------------------------------------------
sorterAdd(entries, move, score) ==
  LET pos == Cardinality({j \in 1 .. Len(entries) : entries[j].score <= score})
  IN SubSeq(entries, 1, pos) \o <<[move |-> move, score |-> score]>>
       \o SubSeq(entries, pos + 1, Len(entries))

\* Solver.cpp:89-92 and 151-154: for(i = WIDTH; i--;) add the move of column
\* columnOrder[i] when it is among the candidate columns.
RECURSIVE addMoves(_, _, _, _)
addMoves(P, cand, i, entries) ==
  IF i < 0 THEN entries
  ELSE addMoves(P, cand, i - 1,
                IF columnOrder[i] \in cand
                THEN sorterAdd(entries, columnOrder[i], moveScore(P, columnOrder[i]))
                ELSE entries)

sortedMoves(P, cand) == addMoves(P, cand, WIDTH - 1, << >>)

\* ------------------------------------------------------------------------
\* Solver::negamax (Solver.cpp:41-111).  The table is threaded through the
\* recursion; the result is [v |-> returned value, t |-> table afterwards].
\* ------------------------------------------------------------------------
ret(v, t) == [v |-> v, t |-> t]

RECURSIVE negamax(_, _, _, _, _)
RECURSIVE negamaxLoop(_, _, _, _, _, _, _)

\* Mutant of negamaxLoop: alpha is not raised by a better move.
negamaxLoopKeepAlpha(P, entries, n, alpha, beta, depth, t) ==
  IF n = 0
  THEN ret(alpha, TablePut(t, key(P), encodeUpper(alpha, MIN_SCORE, MAX_SCORE)))
  ELSE LET r == negamax(play(P, entries[n].move), -beta, -alpha, depth, t)
           score == -r.v
       IN IF score >= beta
          THEN ret(score,
                   TablePut(r.t, key(P), encodeLower(score, MIN_SCORE, MAX_SCORE)))
          ELSE negamaxLoop(P, entries, n - 1, alpha, beta, depth, r.t)

\* Solver.cpp:94-110: the loop over moves.getNext() (entry n is the next one)
\* and the final store of the upper bound.
negamaxLoop(P, entries, n, alpha, beta, depth, t) ==
  IF n = 0
  THEN ret(alpha, TablePut(t, key(P), encodeUpper(alpha, MIN_SCORE, MAX_SCORE)))
  ELSE LET r == negamax(play(P, entries[n].move), -beta, -alpha, depth, t)
           score == -r.v
       IN IF score >= beta
          THEN ret(score,
                   TablePut(r.t, key(P), encodeLower(score, MIN_SCORE, MAX_SCORE)))
          ELSE negamaxLoop(P, entries, n - 1,
                           IF score > alpha THEN score ELSE alpha,
                           beta, depth, r.t)

negamax(P, alpha0, beta0, depth, t) ==
  LET poss == possibleNonLosingMoves(P)
      n == nbMoves(P)
  IN
  IF poss = {} THEN ret(CDiv(-(WIDTH * HEIGHT - n), 2), t)
  ELSE IF n >= WIDTH * HEIGHT - 2 THEN ret(0, t)
  ELSE
  LET min1 == CDiv(-(WIDTH * HEIGHT - 2 - n), 2)
      alpha1 == IF alpha0 < min1 THEN min1 ELSE alpha0
  IN
  IF alpha0 < min1 /\ alpha1 >= beta0 THEN ret(alpha1, t)
  ELSE
  LET max1 == CDiv(WIDTH * HEIGHT - 1 - n, 2)
      beta1 == IF beta0 > max1 THEN max1 ELSE beta0
  IN
  IF beta0 > max1 /\ alpha1 >= beta1 THEN ret(beta1, t)
  ELSE
  LET val == TableGet(t, key(P))
      isLow == val # 0 /\ isLowerBound(val, MIN_SCORE, MAX_SCORE)
      isUp == val # 0 /\ ~isLowerBound(val, MIN_SCORE, MAX_SCORE)
      min2 == decodeLower(val, MIN_SCORE, MAX_SCORE)
      alpha2 == IF isLow /\ alpha1 < min2 THEN min2 ELSE alpha1
  IN
  IF isLow /\ alpha1 < min2 /\ alpha2 >= beta1 THEN ret(alpha2, t)
  ELSE
  LET max2 == decodeUpper(val, MIN_SCORE, MAX_SCORE)
      beta2 == IF isUp /\ beta1 > max2 THEN max2 ELSE beta1
  IN
  IF isUp /\ beta1 > max2 /\ alpha2 >= beta2 THEN ret(beta2, t)
  ELSE
  LET bv == OpeningBookGet(P, 0)
  IN
  IF bv # 0 THEN ret(bv + MIN_SCORE - 1, t)
  ELSE IF depth = 0 THEN ret(0, t)
  ELSE LET entries == sortedMoves(P, poss)
       IN negamaxLoop(P, entries, Len(entries), alpha2, beta2,
                      IF depth > 0 THEN depth - 1 ELSE depth, t)

\* ------------------------------------------------------------------------
\* Solver::solve (Solver.cpp:113-132)
\* ------------------------------------------------------------------------

\* Mutant of midpoint: snaps to min/2 without comparing it with the midpoint.
midpointAlwaysSnap(min, max) ==
  LET med == min + CDiv(max - min, 2)
  IN IF med <= 0 THEN CDiv(min, 2)
     ELSE IF med >= 0 /\ CDiv(max, 2) > med THEN CDiv(max, 2)
     ELSE med

\* Solver.cpp:124-126: the probed midpoint.
midpoint(min, max) ==
  LET med == min + CDiv(max - min, 2)
  IN IF med <= 0 /\ CDiv(min, 2) < med THEN CDiv(min, 2)
     ELSE IF med >= 0 /\ CDiv(max, 2) > med THEN CDiv(max, 2)
     ELSE med

\* Solver.cpp:128-129: the narrowing of the range by a probe's result r.
narrow(min, max, med, r) ==
  IF r <= med THEN [min |-> min, max |-> r] ELSE [min |-> r, max |-> max]

RECURSIVE solveLoop(_, _, _, _, _)
solveLoop(P, depth, min, max, t) ==
  IF ~(min < max) THEN ret(min, t)
  ELSE LET med == midpoint(min, max)
           r == negamax(P, med, med + 1, depth, t)
           nw == narrow(min, max, med, r.v)
       IN solveLoop(P, depth, nw.min, nw.max, r.t)

solve(P, depth, weak, t) ==
  IF canWinNext(P)
  THEN ret(CDiv(WIDTH * HEIGHT + 1 - nbMoves(P), 2), t)
  ELSE LET min == IF weak THEN -1 ELSE CDiv(-(WIDTH * HEIGHT - nbMoves(P)), 2)
           max == IF weak THEN 1 ELSE CDiv(WIDTH * HEIGHT + 1 - nbMoves(P), 2)
       IN solveLoop(P, depth, min, max, t)

\* ------------------------------------------------------------------------
\* Solver::getBestMove (Solver.cpp:143-172).  The result is
\* [scores |-> the (move, score) pairs handed to the chooser, t |-> table].
\* ------------------------------------------------------------------------
RECURSIVE bestMoveLoop(_, _, _, _, _, _, _)
bestMoveLoop(P, entries, n, depth, weak, scores, t) ==
  IF n = 0 THEN [scores |-> scores, t |-> t]
  ELSE LET r == solve(play(P, entries[n].move), depth, weak, t)
       IN bestMoveLoop(P, entries, n - 1, depth, weak,
                       scores \cup {<<entries[n].move, -r.v>>}, r.t)

\* MoveChooser (not among the sources): a move of maximal recorded score;
\* which one among equals is not specified.
chooserBest(scores) ==
  {m[1] : m \in {x \in scores : \A y \in scores : y[2] <= x[2]}}

getBestMove(P, depth, weak, t) ==
  IF possible(P) = {} THEN [scores |-> {}, t |-> t]
  ELSE LET entries == sortedMoves(P, possible(P))
       IN bestMoveLoop(P, entries, Len(entries), depth, weak, {}, t)

\* ------------------------------------------------------------------------
\* Reference: the exhaustive minimax score of every position in which nobody
\* has won, tabulated from the full boards down.  Score convention of the
\* solver: a win with the mover's next stone on a board of n stones scores
\* (WIDTH*HEIGHT + 1 - n) / 2, a draw 0, and a position's score is the best
\* of the negated scores of its successors.
\* ------------------------------------------------------------------------
RECURSIVE legitLayer(_)
legitLayer(n) ==
  IF n = 0 THEN {EmptyPosition}
  ELSE UNION {{play(p, c) : c \in {x \in possible(p) : ~isWinningMove(p, x)}} :
                p \in legitLayer(n - 1)}

maxOf(S) == CHOOSE x \in S : \A y \in S : y <= x

RECURSIVE scoreTable(_)
scoreTable(n) ==
  IF n > WIDTH * HEIGHT THEN << >>
  ELSE LET deeper == scoreTable(n + 1)
           exact(p) ==
             IF canWinNext(p) THEN CDiv(WIDTH * HEIGHT + 1 - n, 2)
             ELSE IF possible(p) = {} THEN 0
             ELSE maxOf({-deeper[play(p, c)] : c \in possible(p)})
       IN [p \in legitLayer(n) |-> exact(p)] @@ deeper

RefTable == scoreTable(0)

RefScore(P) == RefTable[P]

\* The value of playing column c in position P, for the mover.
RefMoveValue(P, c) ==
  IF isWinningMove(P, c) THEN CDiv(WIDTH * HEIGHT + 1 - nbMoves(P), 2)
  ELSE -RefScore(play(P, c))

\* ------------------------------------------------------------------------
\* The game and the solver as a state machine
\* ------------------------------------------------------------------------

\* Bounds of the model.
MaxPly == 3
MaxCalls == 2
MaxWindow == 2
MaxPlySolve == 4
MaxCallsSolve == 2
MaxPlyAll == 4
MaxCallsAll == 1
MaxDepth == 1

Depths == -1 .. MaxDepth
Windows == {w \in (-MaxWindow .. MaxWindow) \X (-MaxWindow .. MaxWindow) : w[1] < w[2]}

IdleOrder == [w |-> 0, i |-> 0, arr |-> << >>]
IdleEnc == [stage |-> "idle"]
IdleSearch == [min |-> 0, max |-> 0, width0 |-> 0, probes |-> 0]

NoCall ==
  [op |-> "none", P |-> EmptyPosition, alpha |-> 0, beta |-> 0, depth |-> 0,
   weak |-> FALSE, v |-> 0, scores |-> {}]

\* After construction: Solver() with an empty table and an empty book
\* (OpeningBook(width, height): T = 0, depth = -1), on the empty board.
Init ==
  /\ board = EmptyPosition
  /\ transTable = EmptyTable
  /\ bookT = "null"
  /\ bookDepth = -1
  /\ bookTab = EmptyTable
  /\ alive = TRUE
  /\ last = NoCall
  /\ ncalls = 0
  /\ order = IdleOrder
  /\ enc = IdleEnc
  /\ search = IdleSearch

\* A player drops a stone in column c of the game in progress.
Play(c) ==
  /\ nobodyWon(board)
  /\ canPlay(board, c)
  /\ board' = play(board, c)
  /\ last' = NoCall
  /\ UNCHANGED <<transTable, ncalls, bookVars, auxVars>>

\* solver.solve(board, depth, weak)
Solve(depth, weak) ==
  /\ nobodyWon(board)
  /\ LET r == solve(board, depth, weak, transTable)
     IN /\ transTable' = r.t
        /\ last' = [NoCall EXCEPT !.op = "solve", !.P = board, !.depth = depth,
                                  !.weak = weak, !.v = r.v]
  /\ ncalls' = ncalls + 1
  /\ UNCHANGED <<board, bookVars, auxVars>>

\* solver.negamax(board, alpha, beta, depth), within its precondition.
Negamax(alpha, beta, depth) ==
  /\ nobodyWon(board)
  /\ ~canWinNext(board)
  /\ alpha < beta
  /\ LET r == negamax(board, alpha, beta, depth, transTable)
     IN /\ transTable' = r.t
        /\ last' = [NoCall EXCEPT !.op = "negamax", !.P = board, !.alpha = alpha,
                                  !.beta = beta, !.depth = depth, !.v = r.v]
  /\ ncalls' = ncalls + 1
  /\ UNCHANGED <<board, bookVars, auxVars>>

\* solver.getBestMove(board, depth, weak)
GetBestMove(depth, weak) ==
  /\ nobodyWon(board)
  /\ LET r == getBestMove(board, depth, weak, transTable)
     IN /\ transTable' = r.t
        /\ \E best \in (IF r.scores = {} THEN {-1} ELSE chooserBest(r.scores)) :
             last' = [NoCall EXCEPT !.op = "getBestMove", !.P = board,
                                    !.depth = depth, !.weak = weak, !.v = best,
                                    !.scores = r.scores]
  /\ ncalls' = ncalls + 1
  /\ UNCHANGED <<board, bookVars, auxVars>>

\* The solver used with an unlimited depth budget, negamax included.
Next ==
  \/ /\ nbMoves(board) < MaxPly
     /\ \E c \in Cols : Play(c)
  \/ /\ ncalls < MaxCalls
     /\ \E weak \in BOOLEAN : Solve(-1, weak)
  \/ /\ ncalls < MaxCalls
     /\ \E w \in Windows : Negamax(w[1], w[2], -1)

Spec == Init /\ [][Next]_vars

\* solve alone, with an unlimited depth budget, called again and again as the
\* game goes on.
NextSolve ==
  \/ /\ nbMoves(board) < MaxPlySolve
     /\ \E c \in Cols : Play(c)
  \/ /\ ncalls < MaxCallsSolve
     /\ \E weak \in BOOLEAN : Solve(-1, weak)

SpecSolve == Init /\ [][NextSolve]_vars

\* The public operations with every depth budget.
NextAll ==
  \/ /\ nbMoves(board) < MaxPlyAll
     /\ \E c \in Cols : Play(c)
  \/ /\ ncalls < MaxCallsAll
     /\ \E d \in Depths, weak \in BOOLEAN : Solve(d, weak)
  \/ /\ ncalls < MaxCallsAll
     /\ \E d \in Depths, weak \in BOOLEAN : GetBestMove(d, weak)

SpecAll == Init /\ [][NextAll]_vars

\* ------------------------------------------------------------------------
\* Table soundness: what a stored byte claims about its position
\* ------------------------------------------------------------------------
entrySound(k, val) ==
  \/ val = 0
  \/ /\ isLowerBound(val, MIN_SCORE, MAX_SCORE)
     /\ RefScore(k) >= decodeLower(val, MIN_SCORE, MAX_SCORE)
  \/ /\ ~isLowerBound(val, MIN_SCORE, MAX_SCORE)
     /\ RefScore(k) <= decodeUpper(val, MIN_SCORE, MAX_SCORE)

tableSound(t) ==
  \A k \in DOMAIN t : k \in DOMAIN RefTable => entrySound(k, t[k])

\* C1: negamax on a position where nobody has won and the mover cannot win at
\* once, with a window alpha < beta, unlimited depth, an empty book and a table
\* of valid bounds, returns v with: v <= alpha implies score <= alpha,
\* v >= beta implies score >= beta, alpha < v < beta implies v = score.
C1_NegamaxContract ==
  (last.op = "negamax" /\ last.depth = -1) =>
     LET s == RefScore(last.P)
     IN /\ (last.v <= last.alpha => s <= last.alpha)
        /\ (last.v >= last.beta => s >= last.beta)
        /\ ((last.alpha < last.v /\ last.v < last.beta) => last.v = s)

\* Witness of C1: a second call on the Solver is a negamax whose result lies
\* strictly inside its window and is not a draw.
C1_Witness ==
  /\ last.op = "negamax" /\ last.depth = -1 /\ ncalls = 2
  /\ last.alpha < last.v /\ last.v < last.beta /\ last.v # 0
  /\ transTable # EmptyTable

\* C2: solve(P, unlimited, weak = false) returns the exhaustive minimax score,
\* whatever unlimited-depth calls were made before on the same Solver.
C2_SolveExact ==
  (last.op = "solve" /\ last.depth = -1 /\ ~last.weak) => last.v = RefScore(last.P)

\* Witness of C2: a second call on the Solver is a strong unlimited solve of a
\* position that had to be searched and is not a draw.
C2_Witness ==
  /\ last.op = "solve" /\ last.depth = -1 /\ ~last.weak /\ ncalls = 2
  /\ ~canWinNext(last.P) /\ last.v # 0
  /\ key(last.P) \in DOMAIN transTable

\* C3 as stated: solve(P, depth, weak = true) returns a value in {-1, 0, 1}.
C3_WeakRange ==
  (last.op = "solve" /\ last.weak) => last.v \in {-1, 0, 1}

\* C8 as stated: every non-zero table entry is a sound bound of its position.
C8_TableSound == tableSound(transTable)

\* C9 as stated: getBestMove(P, unlimited, weak = false) returns an optimal
\* legal column (a winning one when the mover can win at once), or -1 when no
\* column is playable.
C9_BestMoveOptimal ==
  (last.op = "getBestMove" /\ last.depth = -1 /\ ~last.weak) =>
     IF possible(last.P) = {} THEN last.v = -1
     ELSE /\ last.v \in possible(last.P)
          /\ RefMoveValue(last.P, last.v) = RefScore(last.P)

\* ------------------------------------------------------------------------
\* OpeningBook (OpeningBook.hpp): load, clear, save, get, destructor
\* ------------------------------------------------------------------------

\* Bounds of the book model.
MaxBookDepth == 1
MaxBookValue == 2

\* A byte read into a plain char: whether char is signed is the build's choice.
toChar(b, sgn) == IF sgn /\ b >= 128 THEN b - 256 ELSE b

\* OpeningBook.hpp:36-73: the key sizes and table sizes a table exists for.
supportedKeyBytes == {1, 2, 4}
supportedLogSizes == {14} \cup (21 .. 27)
initTranspositionTable(key_bytes, log_size) ==
  IF key_bytes \in supportedKeyBytes /\ log_size \in supportedLogSizes
  THEN "live" ELSE "null"

\* Table contents: at most one stored position of at most MaxBookDepth stones.
BookKeys == UNION {legitLayer(n) : n \in 0 .. MaxBookDepth}
BookTables == {EmptyTable} \cup {k :> v : k \in BookKeys, v \in 1 .. MaxBookValue}
BookPositions == UNION {legitLayer(n) : n \in 0 .. (MaxBookDepth + 1)}

\* A file: whether it opens, how many of the six header bytes it holds, the
\* header bytes, whether the key and value arrays are complete, and the table
\* they hold.
GoodFile ==
  [opens |-> TRUE, len |-> 6, width |-> WIDTH, height |-> HEIGHT,
   depth |-> MaxBookDepth, key_bytes |-> 1, value_bytes |-> 1, log_size |-> 14,
   dataOk |-> TRUE, tab |-> EmptyTable]
BookFiles ==
  {[GoodFile EXCEPT !.opens = FALSE]}
  \cup {[GoodFile EXCEPT !.len = n] : n \in 0 .. 5}
  \cup {[GoodFile EXCEPT !.width = f[1], !.height = f[2], !.depth = f[3],
                         !.key_bytes = f[4], !.value_bytes = f[5], !.log_size = f[6]] :
          f \in {WIDTH, WIDTH + 1} \X {HEIGHT, HEIGHT + 1}
                \X {MaxBookDepth, WIDTH * HEIGHT + 1}
                \X {1, 9} \X {1, 2} \X {14, 41}}
  \cup {[GoodFile EXCEPT !.key_bytes = 3], [GoodFile EXCEPT !.log_size = 15],
        [GoodFile EXCEPT !.depth = 200]}
  \cup {[GoodFile EXCEPT !.depth = f[1], !.dataOk = f[2], !.tab = f[3]] :
          f \in (0 .. MaxBookDepth) \X BOOLEAN \X BookTables}

\* Signedness matters only for a file that holds a byte above 127.
charKinds(f) == IF f.depth >= 128 THEN BOOLEAN ELSE {FALSE}

\* What a read through a deleted table may yield.
Junk == 1 .. MaxBookValue

\* Mutant of loadBook: depth is not reset before the file is read, so a load
\* that stops early keeps the old depth beside the deleted table.
loadBookKeepDepth(T, depth, tab, f, sgn) ==
  LET T0 == IF T = "live" THEN "dangling" ELSE T
      tab0 == IF T = "live" THEN EmptyTable ELSE tab
      stop(stage) ==
        [T |-> T0, depth |-> depth, tab |-> tab0, ok |-> FALSE, stage |-> stage]
  IN IF ~f.opens THEN stop("open")
     ELSE IF f.len < 1 \/ toChar(f.width, sgn) # WIDTH THEN stop("width")
     ELSE IF f.len < 2 \/ toChar(f.height, sgn) # HEIGHT THEN stop("height")
     ELSE IF f.len < 3 \/ toChar(f.depth, sgn) > WIDTH * HEIGHT THEN stop("depth")
     ELSE IF f.len < 4 \/ toChar(f.key_bytes, sgn) > 8 THEN stop("key size")
     ELSE IF f.len < 5 \/ toChar(f.value_bytes, sgn) # 1 THEN stop("value size")
     ELSE IF f.len < 6 \/ toChar(f.log_size, sgn) > 40 THEN stop("log size")
     ELSE IF initTranspositionTable(toChar(f.key_bytes, sgn),
                                    toChar(f.log_size, sgn)) = "null"
     THEN [T |-> "null", depth |-> -1, tab |-> EmptyTable, ok |-> FALSE,
           stage |-> "init"]
     ELSE IF ~f.dataOk
     THEN [T |-> "live", depth |-> -1, tab |-> f.tab, ok |-> FALSE, stage |-> "data"]
     ELSE [T |-> "live", depth |-> toChar(f.depth, sgn), tab |-> f.tab, ok |-> TRUE,
           stage |-> "done"]

\* load(filename) (OpeningBook.hpp:98-168) on a book whose pointer is T: the
\* book afterwards, whether the load succeeded, and the step that stopped it.
\* "delete T" leaves the pointer as it is: a live table becomes a dangling one.
loadBook(T, depth, tab, f, sgn) ==
  LET depth0 == -1  \* line 99: depth = -1, whatever it was
      T0 == IF T = "live" THEN "dangling" ELSE T
      tab0 == IF T = "live" THEN EmptyTable ELSE tab
      stop(stage) ==
        [T |-> T0, depth |-> depth0, tab |-> tab0, ok |-> FALSE, stage |-> stage]
  IN IF ~f.opens THEN stop("open")
     ELSE IF f.len < 1 \/ toChar(f.width, sgn) # WIDTH THEN stop("width")
     ELSE IF f.len < 2 \/ toChar(f.height, sgn) # HEIGHT THEN stop("height")
     ELSE IF f.len < 3 \/ toChar(f.depth, sgn) > WIDTH * HEIGHT THEN stop("depth")
     ELSE IF f.len < 4 \/ toChar(f.key_bytes, sgn) > 8 THEN stop("key size")
     ELSE IF f.len < 5 \/ toChar(f.value_bytes, sgn) # 1 THEN stop("value size")
     ELSE IF f.len < 6 \/ toChar(f.log_size, sgn) > 40 THEN stop("log size")
     ELSE IF initTranspositionTable(toChar(f.key_bytes, sgn),
                                    toChar(f.log_size, sgn)) = "null"
     THEN [T |-> "null", depth |-> depth0, tab |-> EmptyTable, ok |-> FALSE,
           stage |-> "init"]
     ELSE IF ~f.dataOk
     THEN [T |-> "live", depth |-> depth0, tab |-> f.tab, ok |-> FALSE,
           stage |-> "data"]
     ELSE [T |-> "live", depth |-> toChar(f.depth, sgn), tab |-> f.tab, ok |-> TRUE,
           stage |-> "done"]

BookOp(op) ==
  [op |-> op, ok |-> TRUE, stage |-> "", v |-> 0, uaf |-> FALSE]

\* The two constructors (OpeningBook.hpp:76-78): an empty book, or a book
\* around a given table and depth.
InitBook ==
  /\ board = EmptyPosition
  /\ transTable = EmptyTable
  /\ \/ bookT = "null" /\ bookDepth = -1 /\ bookTab = EmptyTable
     \/ bookT = "live" /\ bookDepth \in 0 .. MaxBookDepth /\ bookTab \in BookTables
  /\ alive = TRUE
  /\ last = BookOp("new")
  /\ ncalls = 0
  /\ order = IdleOrder
  /\ enc = IdleEnc
  /\ search = IdleSearch

bookUsable == alive /\ last.op # "destroy"

\* An operation that touches a deleted table is undefined: the process aborts
\* or goes on as if nothing had happened.
Undefined(op) ==
  /\ last' = [BookOp(op) EXCEPT !.uaf = TRUE, !.ok = FALSE]
  /\ alive' \in BOOLEAN
  /\ UNCHANGED <<bookT, bookDepth, bookTab>>

Load(f, sgn) ==
  /\ bookUsable
  /\ IF bookT = "dangling"
     THEN \* delete T on a table already deleted
          \/ /\ last' = [BookOp("load") EXCEPT !.uaf = TRUE, !.ok = FALSE]
             /\ alive' = FALSE
             /\ bookDepth' = -1
             /\ UNCHANGED <<bookT, bookTab>>
          \/ LET r == loadBook(bookT, bookDepth, bookTab, f, sgn)
             IN /\ bookT' = r.T /\ bookDepth' = r.depth /\ bookTab' = r.tab
                /\ last' = [BookOp("load") EXCEPT !.uaf = TRUE, !.ok = r.ok,
                                                  !.stage = r.stage]
                /\ alive' = TRUE
     ELSE LET r == loadBook(bookT, bookDepth, bookTab, f, sgn)
          IN /\ bookT' = r.T /\ bookDepth' = r.depth /\ bookTab' = r.tab
             /\ last' = [BookOp("load") EXCEPT !.ok = r.ok, !.stage = r.stage]
             /\ alive' = TRUE
  /\ UNCHANGED <<solverVars, auxVars>>

\* clear() (OpeningBook.hpp:83-85): if (T) T->reset()
Clear ==
  /\ bookUsable
  /\ IF bookT = "dangling" THEN Undefined("clear")
     ELSE /\ bookTab' = EmptyTable
          /\ last' = BookOp("clear")
          /\ UNCHANGED <<bookT, bookDepth, alive>>
  /\ UNCHANGED <<solverVars, auxVars>>

\* save(file) (OpeningBook.hpp:170-191): if (T) write the header and arrays
Save ==
  /\ bookUsable
  /\ IF bookT = "dangling" THEN Undefined("save")
     ELSE /\ last' = [BookOp("save") EXCEPT !.ok = (bookT = "live")]
          /\ UNCHANGED <<bookT, bookDepth, bookTab, alive>>
  /\ UNCHANGED <<solverVars, auxVars>>

\* get(P) (OpeningBook.hpp:193-197)
Get(P, junk) ==
  /\ bookUsable
  /\ last' = [BookOp("get") EXCEPT !.v = OpeningBookGet(P, junk),
                !.uaf = (bookT = "dangling" /\ nbMoves(P) <= bookDepth)]
  /\ UNCHANGED <<bookVars, solverVars, auxVars>>

\* ~OpeningBook() (OpeningBook.hpp:199-201): delete T
Destroy ==
  /\ bookUsable
  /\ last' = [BookOp("destroy") EXCEPT !.uaf = (bookT = "dangling")]
  /\ alive' \in (IF bookT = "dangling" THEN BOOLEAN ELSE {TRUE})
  /\ bookT' = IF bookT = "live" THEN "dangling" ELSE bookT
  /\ bookTab' = EmptyTable
  /\ UNCHANGED <<bookDepth, solverVars, auxVars>>

NextBook ==
  \/ \E f \in BookFiles : \E sgn \in charKinds(f) : Load(f, sgn)
  \/ Clear
  \/ Save
  \/ \E P \in BookPositions, junk \in Junk : Get(P, junk)
  \/ Destroy

SpecBook == InitBook /\ [][NextBook]_vars

\* C6: after a load that stopped on a header field, on an unsupported size or
\* on a file that cannot be opened or read, get(P) returns 0 for every
\* position P, whatever the book held before.
C6_FailedLoadAlwaysMisses ==
  (last.op = "load" /\ ~last.ok /\ alive) =>
     \A P \in DOMAIN RefTable, junk \in Junk : OpeningBookGet(P, junk) = 0

\* Witness of C6: a load stopped on the width byte of a book that held a
\* table, which is now deleted.
C6_Witness ==
  /\ last.op = "load" /\ ~last.ok /\ last.stage = "width" /\ alive
  /\ bookT = "dangling"

\* C10 as stated: the table pointer is null or refers to a live table, and no
\* operation touches a table that a load has deleted.
C10_TableNullOrLive ==
  (last.op # "destroy") => (bookT \in {"null", "live"} /\ ~last.uaf)

\* ------------------------------------------------------------------------
\* Solver::Solver (Solver.cpp:175-178): the loop that fills columnOrder, for
\* a board of any width
\* ------------------------------------------------------------------------
MaxWidth == 14

IdleRest ==
  /\ board = EmptyPosition
  /\ transTable = EmptyTable
  /\ bookT = "null"
  /\ bookDepth = -1
  /\ bookTab = EmptyTable
  /\ alive = TRUE
  /\ last = NoCall
  /\ ncalls = 0

InitOrder ==
  /\ IdleRest
  /\ order \in {[w |-> w, i |-> 0, arr |-> << >>] : w \in 1 .. MaxWidth}
  /\ enc = IdleEnc
  /\ search = IdleSearch

\* One iteration: columnOrder[i] = WIDTH/2 + (1 - 2*(i%2)) * (i+1) / 2
ConstructStep ==
  /\ order.i < order.w
  /\ order' = [order EXCEPT !.i = @ + 1,
                            !.arr = Append(@, columnOrderOf(order.w)[order.i])]
  /\ UNCHANGED <<solverVars, bookVars, last, enc, search>>

NextOrder == ConstructStep

SpecOrder == InitOrder /\ [][NextOrder]_vars

constructed == order.w > 0 /\ order.i = order.w

\* C4 as stated: for width 7 the order is exactly [3, 4, 2, 5, 1, 6, 0], and
\* for every width it is a permutation of 0..W-1 starting with column W/2.
C4_ColumnOrder ==
  constructed =>
    /\ (order.w = 7 => order.arr = <<3, 4, 2, 5, 1, 6, 0>>)
    /\ {order.arr[j] : j \in 1 .. order.w} = 0 .. (order.w - 1)
    /\ order.arr[1] = order.w \div 2

\* ------------------------------------------------------------------------
\* A bound written to the table and read back, as negamax does it
\* (Solver.cpp:102, 109 and 65-73), for the score range of any board
\* ------------------------------------------------------------------------
MaxBoardWidth == 7
MaxBoardHeight == 6
MaxAlign == 4

InitCodec ==
  /\ IdleRest
  /\ order = IdleOrder
  /\ search = IdleSearch
  /\ \E w \in 1 .. MaxBoardWidth, h \in 1 .. MaxBoardHeight, a \in ALIGN .. MaxAlign :
       \E s \in MinScoreOf(w, h, a) .. MaxScoreOf(w, h, a), kind \in {"upper", "lower"} :
         enc = [stage |-> "new", lo |-> MinScoreOf(w, h, a), hi |-> MaxScoreOf(w, h, a),
                s |-> s, kind |-> kind]

\* transTable.put(key, ...) of Solver.cpp:102 (lower bound) or :109 (upper bound)
PutBound ==
  /\ enc.stage = "new"
  /\ transTable' =
       TablePut(transTable, key(board),
                IF enc.kind = "upper" THEN encodeUpper(enc.s, enc.lo, enc.hi)
                ELSE encodeLower(enc.s, enc.lo, enc.hi))
  /\ enc' = [enc EXCEPT !.stage = "stored"]
  /\ UNCHANGED <<board, ncalls, bookVars, last, order, search>>

\* transTable.get(key) and the decoding of Solver.cpp:65-73
GetBound ==
  /\ enc.stage = "stored"
  /\ LET val == TableGet(transTable, key(board))
     IN enc' = [stage |-> "read", lo |-> enc.lo, hi |-> enc.hi, s |-> enc.s,
                kind |-> enc.kind, val |-> val,
                readKind |-> IF val = 0 THEN "absent"
                             ELSE IF isLowerBound(val, enc.lo, enc.hi) THEN "lower"
                             ELSE "upper",
                readScore |-> IF isLowerBound(val, enc.lo, enc.hi)
                              THEN decodeLower(val, enc.lo, enc.hi)
                              ELSE decodeUpper(val, enc.lo, enc.hi)]
  /\ UNCHANGED <<solverVars, bookVars, last, order, search>>

NextCodec == PutBound \/ GetBound

SpecCodec == InitCodec /\ [][NextCodec]_vars

\* C5: for every score s in [MIN_SCORE, MAX_SCORE] the stored byte is
\* non-zero, an upper bound's byte is at most MAX_SCORE - MIN_SCORE + 1 and a
\* lower bound's byte is above it, and reading it back yields s with the same
\* kind of bound.
C5_BoundRoundTrip ==
  (enc.stage = "read") =>
     /\ enc.val # 0
     /\ (enc.kind = "upper" => enc.val <= enc.hi - enc.lo + 1)
     /\ (enc.kind = "lower" => enc.val > enc.hi - enc.lo + 1)
     /\ enc.readKind = enc.kind
     /\ enc.readScore = enc.s

\* Witness of C5: the highest score of the 7 x 6 board stored as a lower
\* bound and read back.
C5_Witness ==
  /\ enc.stage = "read" /\ enc.kind = "lower"
  /\ enc.lo = MinScoreOf(7, 6, 4) /\ enc.hi = MaxScoreOf(7, 6, 4)
  /\ enc.s = enc.hi

\* ------------------------------------------------------------------------
\* solve's loop (Solver.cpp:123-131) step by step, the probe's result being
\* any value at all
\* ------------------------------------------------------------------------
MaxRange == 5

InitSearch ==
  /\ IdleRest
  /\ order = IdleOrder
  /\ enc = IdleEnc
  /\ \E lo \in -MaxRange .. MaxRange, hi \in -MaxRange .. MaxRange :
       search = [min |-> lo, max |-> hi, width0 |-> hi - lo, probes |-> 0]

\* One iteration: med, r = negamax(P, med, med + 1, depth), narrow.
Probe(r) ==
  /\ search.min < search.max
  /\ LET med == midpoint(search.min, search.max)
         nw == narrow(search.min, search.max, med, r)
     IN search' = [search EXCEPT !.min = nw.min, !.max = nw.max, !.probes = @ + 1]
  /\ UNCHANGED <<solverVars, bookVars, last, order, enc>>

NextSearch == \E r \in (-MaxRange - 1) .. (MaxRange + 1) : Probe(r)

SpecSearch == InitSearch /\ [][NextSearch]_vars

\* C7: while min < max the probed midpoint satisfies min <= med < max, and
\* every probe shrinks max - min by at least one whatever it returns, so the
\* loop ends within (initial max - min) probes.
C7_SearchProgress ==
  /\ (search.min < search.max =>
        /\ search.min <= midpoint(search.min, search.max)
        /\ midpoint(search.min, search.max) < search.max)
  /\ search.probes + (search.max - search.min) <= search.width0

\* Witness of C7: a loop that ended with min = max after several probes.
C7_Witness == search.probes >= 2 /\ search.min = search.max
====
